---- MODULE Spec2Model ----
(***************************************************************************)
(* A model of the rtfmri acquisition pipeline: the Volumizer worker of     *)
(* queuemanagers.py (slice-to-volume reassembly), the SeriesFinder and     *)
(* DicomFinder polling workers, and the ScannerClient operations they use. *)
(***************************************************************************)
EXTENDS Integers, Sequences, FiniteSets, TLC

\* ------------------------------------------------------------------ bounds
\* Largest InstanceNumber a delivered file carries.
MaxInst == 4
\* Number of files the file queue receives in one behaviour.
MaxFiles == 4
\* Largest slices-per-volume value of an acquisition.
MaxK == 2

\* Number of series directories the latest exam comes to hold.
MaxSeries == 2
\* Number of files a series directory comes to hold.
MaxSeriesFiles == 2

\* The acquisition identities (StudyID, SeriesNumber, AcquisitionNumber) of
\* the scanner runs whose files are delivered.
Identities == {<<1, 1, 1>>, <<1, 2, 1>>}

\* A DICOM attribute that the file does not carry.
Absent == 0

VARIABLES
    dicom_q,                    \* the file queue (Volumizer.dicom_q)
    volume_q,                   \* the volume queue (Volumizer.volume_q)
    instance_numbers_needed,    \* Volumizer.run local
    instance_numbers_gathered,  \* Volumizer.run local
    current_esa,                \* Volumizer.run local; <<>> is None
    current_slices,             \* Volumizer.run local
    dcm,                        \* Volumizer.run local; the last file popped
    vol_pc,                     \* "run" or the exception that ended Volumizer.run
    kOf,                        \* input: slices-per-volume of each identity
    popped,                     \* history: every file popped, in order
    assembled,                  \* history: one record per emitted volume
    ndelivered,                 \* history: number of files put on dicom_q
    closed,                     \* input: the scanner run is over, no file follows
    store,                      \* the latest exam: its series, oldest first
    server_up,                  \* the scanner's server accepts connections
    sf_current,                 \* SeriesFinder.current_series; 0 is None
    sf_pc,                      \* "run" or what ended SeriesFinder.run
    series_q,                   \* the series queue
    series_log,                 \* history: every series put on series_q
    df_current,                 \* DicomFinder.current_series; 0 is None
    dicom_files,                \* DicomFinder.dicom_files
    df_pc,                      \* "run" or what ended DicomFinder.run
    tenure,                     \* history: number of series adopted
    file_log,                   \* history: <<tenure, path>> of each file put
    relisted,                   \* history: the current series was listed
                                \* again and held no new file
    file_list,                  \* the listing a client method is handed
    list_out,                   \* what the method made of it
    list_op,                    \* "none" or the method that was applied
    session,                    \* each client's session: "live", "timed_out"
    connects,                   \* history: connect() calls of each client
    last_op,                    \* history: the last operation of each client
    stop_event,                 \* Finder.stop_event of each worker
    loop_at,                    \* the place of each worker in its run loop
    halted_at,                  \* history: where halt() found each worker
    df_listed                   \* history: DicomFinder.run has listed the
                                \* directory of its current series

volVars == <<dicom_q, volume_q, instance_numbers_needed,
             instance_numbers_gathered, current_esa, current_slices, dcm,
             vol_pc, kOf, popped, assembled, ndelivered, closed>>

finderVars == <<store, server_up, sf_current, sf_pc, series_q,
                series_log, df_current, dicom_files, df_pc, tenure, file_log,
                relisted>>

listingVars == <<file_list, list_out, list_op>>

sessionVars == <<session, connects, last_op>>

haltVars == <<stop_event, loop_at, halted_at>>

sideVars == <<listingVars, sessionVars, haltVars, df_listed>>

vars == <<volVars, finderVars, sideVars>>

\* ----------------------------------------------------------- pure helpers
SetOf(s) == {s[i] : i \in 1..Len(s)}

\* list.index(x): the first position holding x (x is in the list).
IndexOf(s, x) == CHOOSE i \in 1..Len(s) : s[i] = x /\ \A j \in 1..(i-1) : s[j] # x

\* list.pop(i) leaves the list without its i-th element.
RemoveAt(s, i) == [j \in 1..(Len(s)-1) |-> IF j < i THEN s[j] ELSE s[j+1]]

\* Mutant: np.arange(k), the block 0..k-1.
ArangeFrom0(k) == [i \in 1..k |-> i - 1]

\* np.arange(k) + 1
ArangePlus1(k) == [i \in 1..k |-> i]

\* A file retrieve_dicom could not decode: the None it returns.
NoneDcm == [decoded |-> FALSE, id |-> 0, StudyID |-> Absent,
            SeriesNumber |-> Absent, AcquisitionNumber |-> Absent,
            InstanceNumber |-> Absent, NumLocs |-> Absent,
            ImagesInAcquisition |-> Absent]

\* A decoded file. NumLocs is the (0x0021, 0x104f) tag.
Dcm(id, esa, inst, locs, iia) ==
    [decoded |-> TRUE, id |-> id, StudyID |-> esa[1], SeriesNumber |-> esa[2],
     AcquisitionNumber |-> esa[3], InstanceNumber |-> inst, NumLocs |-> locs,
     ImagesInAcquisition |-> iia]

\* Volumizer.dicom_esa
dicom_esa(d) == <<d.StudyID, d.SeriesNumber, d.AcquisitionNumber>>

\* Mutant: nothing is ever reported missing.
nothing_missing(need, have) == {}

\* Volumizer.missing_slices
missing_slices(need, have) == SetOf(need) \ SetOf(have)

\* Lines 272-283: the slices-per-volume of a file; Absent when both the
\* number-of-locations tag and ImagesInAcquisition are missing (the getattr
\* without default raises AttributeError).
SlicesPerVolume(d) ==
    IF d.NumLocs # Absent THEN d.NumLocs ELSE d.ImagesInAcquisition

\* Lines 272-307 raise on this file: None has no tags, a missing
\* slices-per-volume, identity or InstanceNumber attribute is not caught.
Raises(d) ==
    \/ ~d.decoded
    \/ SlicesPerVolume(d) = Absent
    \/ d.StudyID = Absent \/ d.SeriesNumber = Absent
    \/ d.AcquisitionNumber = Absent
    \/ d.InstanceNumber = Absent

\* Mutant: the needed block is set for the first file only, never reset at
\* an acquisition boundary.
NeededFirstOnly(d) ==
    IF current_esa = <<>>
    THEN ArangePlus1(SlicesPerVolume(d))
    ELSE instance_numbers_needed

\* Lines 287-291: the needed block after the identity test.
NeededAfterEsa(d) ==
    IF current_esa = <<>> \/ dicom_esa(d) # current_esa
    THEN ArangePlus1(SlicesPerVolume(d))
    ELSE instance_numbers_needed

\* The elements of s at the positions in I, from position j on.
RECURSIVE KeepFrom(_, _, _)
KeepFrom(s, I, j) ==
    IF j > Len(s) THEN <<>>
    ELSE (IF j \in I THEN <<s[j]>> ELSE <<>>) \o KeepFrom(s, I, j + 1)

\* Mutant: the needed slices are taken in the order they arrived.
ExtractArrival(need, i, gathered, slices, out) ==
    LET taken == {j \in 1..Len(gathered) :
                    /\ gathered[j] \in SetOf(need)
                    /\ \A h \in 1..(j-1) : gathered[h] # gathered[j]}
        rest == (1..Len(gathered)) \ taken
    IN  [vol |-> KeepFrom(slices, taken, 1),
         gathered |-> KeepFrom(gathered, rest, 1),
         slices |-> KeepFrom(slices, rest, 1)]

\* Lines 318-322: extract the needed slices in the order of `need`.
\* Returns the volume slices and what is left of the two parallel lists.
RECURSIVE Extract(_, _, _, _, _)
Extract(need, i, gathered, slices, out) ==
    IF i > Len(need) THEN [vol |-> out, gathered |-> gathered, slices |-> slices]
    ELSE LET slice_index == IndexOf(gathered, need[i])
         IN  Extract(need, i + 1, RemoveAt(gathered, slice_index),
                     RemoveAt(slices, slice_index),
                     Append(out, slices[slice_index]))

\* Volumizer.assemble_volume: identity from slices[0], image from the stack.
assemble_volume(slices) ==
    [exam |-> slices[1].StudyID, series |-> slices[1].SeriesNumber,
     acquisition |-> slices[1].AcquisitionNumber, image |-> slices]

\* Mutant: the needed block moves on by one instance number.
AdvanceByOne(need, k) == [i \in 1..Len(need) |-> need[i] + 1]

\* Line 337: instance_numbers_needed += slices_per_volume
Advance(need, k) == [i \in 1..Len(need) |-> need[i] + k]

\* Lines 272-337: the rest of one loop iteration, on file d; `at` is the
\* number of files popped so far (history only).
Process(d, at) ==
    IF Raises(d)
    THEN /\ vol_pc' = IF d.decoded THEN "AttributeError" ELSE "TypeError"
         /\ UNCHANGED <<volume_q, instance_numbers_needed,
                        instance_numbers_gathered, current_esa,
                        current_slices, assembled>>
    ELSE LET k == SlicesPerVolume(d)
             need == NeededAfterEsa(d)
             gathered == Append(instance_numbers_gathered, d.InstanceNumber)
             slices == Append(current_slices, d)
         IN  /\ current_esa' = dicom_esa(d)
             /\ vol_pc' = vol_pc
             /\ IF SetOf(need) \subseteq SetOf(gathered)
                THEN LET x == Extract(need, 1, gathered, slices, <<>>)
                     IN  /\ volume_q' = Append(volume_q, assemble_volume(x.vol))
                         /\ instance_numbers_gathered' = x.gathered
                         /\ current_slices' = x.slices
                         /\ instance_numbers_needed' = Advance(need, k)
                         /\ assembled' = Append(assembled,
                                [needed |-> need, esa |-> dicom_esa(d),
                                 spv |-> k, at |-> at])
                ELSE /\ instance_numbers_needed' = need
                     /\ instance_numbers_gathered' = gathered
                     /\ current_slices' = slices
                     /\ UNCHANGED <<volume_q, assembled>>

\* ---------------------------------------------------------------- actions
\* The files of acquisitions whose slices-per-volume is constant.
KFiles(id) == {Dcm(id, e, i, kOf[e], Absent) : e \in Identities, i \in 1..MaxInst}

\* DicomFinder.run line 164 seen from the consumer: one more file enters the
\* file queue.
Deliver(F) ==
    /\ ndelivered < MaxFiles
    /\ ~closed
    /\ \E d \in F : dicom_q' = Append(dicom_q, d)
    /\ ndelivered' = ndelivered + 1
    /\ UNCHANGED <<volume_q, instance_numbers_needed, instance_numbers_gathered,
                   current_esa, current_slices, dcm, vol_pc, kOf, popped,
                   assembled, closed, finderVars, sideVars>>

DeliverK == Deliver(KFiles(ndelivered + 1))

\* Lines 256-262 then 272-337: the pop returns a file.
VolGet ==
    /\ vol_pc = "run"
    /\ dicom_q # <<>>
    /\ dcm' = Head(dicom_q)
    /\ dicom_q' = Tail(dicom_q)
    /\ popped' = Append(popped, Head(dicom_q))
    /\ Process(Head(dicom_q), Len(popped) + 1)
    /\ UNCHANGED <<kOf, ndelivered, closed, finderVars, sideVars>>

\* Lines 263-270: the pop times out. With a satisfied needed set the
\* iteration falls through to line 272 with the `dcm` of the last pop.
VolTimeout ==
    /\ vol_pc = "run"
    /\ dicom_q = <<>>
    /\ IF Len(instance_numbers_needed) > 0
          /\ missing_slices(instance_numbers_needed,
                            instance_numbers_gathered) = {}
       THEN /\ Process(dcm, Len(popped))
            /\ UNCHANGED <<dicom_q, dcm, popped, kOf, ndelivered, closed,
                           finderVars, sideVars>>
       ELSE UNCHANGED vars

\* The three workers of queuemanagers.py.
Workers == {"SeriesFinder", "DicomFinder", "Volumizer"}

\* The two protocol bindings of client.py.
Bindings == {"ScannerClient", "ScannerSFTPClient"}

\* No client method has been handed a listing.
InitListing ==
    /\ file_list = <<>>
    /\ list_out = <<>>
    /\ list_op = "none"

\* ScannerClient.__init__ and ScannerSFTPClient.connect: each client starts
\* on the session its constructor opened.
InitSession ==
    /\ session = [b \in Bindings |-> "live"]
    /\ connects = [b \in Bindings |-> 0]
    /\ last_op = [b \in Bindings |-> [op |-> "none", probed |-> FALSE,
                                       ran_on |-> "none"]]

\* Finder.__init__: the stop event is clear; run starts at the loop test.
InitStop ==
    /\ stop_event = [w \in Workers |-> FALSE]
    /\ loop_at = [w \in Workers |-> "top"]
    /\ halted_at = [w \in Workers |-> "never"]

\* The workers and their queues after construction.
InitPipeline ==
    /\ dicom_q = <<>>
    /\ volume_q = <<>>
    /\ instance_numbers_needed = <<>>
    /\ instance_numbers_gathered = <<>>
    /\ current_esa = <<>>
    /\ current_slices = <<>>
    /\ dcm = NoneDcm
    /\ vol_pc = "run"
    /\ kOf \in [Identities -> 1..MaxK]
    /\ popped = <<>>
    /\ assembled = <<>>
    /\ ndelivered = 0
    /\ closed = FALSE
    /\ server_up = TRUE
    /\ sf_current = 0
    /\ sf_pc = "run"
    /\ series_q = <<>>
    /\ series_log = <<>>
    /\ df_current = 0
    /\ dicom_files = {}
    /\ df_pc = "run"
    /\ tenure = 0
    /\ file_log = <<>>
    /\ relisted = FALSE
    /\ df_listed = FALSE

\* The workers start before the scanner has written anything.
InitWorkers == InitPipeline /\ store = <<>>

Init == InitWorkers /\ InitListing /\ InitSession /\ InitStop

Next == DeliverK \/ VolGet \/ VolTimeout

\* The Volumizer fed with files of acquisitions of constant slices-per-volume.
Spec == Init /\ [][Next]_vars

\* ------------------------------------------------ one acquisition, to its end
\* The files of the first acquisition only.
RunFiles(id) == {Dcm(id, <<1, 1, 1>>, i, kOf[<<1, 1, 1>>], Absent) : i \in 1..MaxInst}

DeliverRun == Deliver(RunFiles(ndelivered + 1))

\* The scanner run ends: no further file is written, so none is delivered.
Finish ==
    /\ ~closed
    /\ closed' = TRUE
    /\ UNCHANGED <<dicom_q, volume_q, instance_numbers_needed,
                   instance_numbers_gathered, current_esa, current_slices, dcm,
                   vol_pc, kOf, popped, assembled, ndelivered, finderVars, sideVars>>

NextRun == DeliverRun \/ Finish \/ VolGet \/ VolTimeout

\* The Volumizer thread keeps running its loop (lines 256-337): a pop that
\* can return does, and a timeout that can assemble does.
InitRun == Init /\ \A e \in Identities \ {<<1, 1, 1>>} : kOf[e] = 1

SpecRun == InitRun /\ [][NextRun]_vars /\ WF_vars(VolGet) /\ WF_vars(VolTimeout)

\* ------------------------------------------------------- files that fail
\* What the file queue can receive of the first acquisition: its files with
\* the number-of-locations tag, its files with ImagesInAcquisition only, a
\* file with neither, a file without InstanceNumber, and the None that
\* retrieve_dicom returns for bytes that do not decode.
ErrFiles(id) ==
    RunFiles(id)
    \cup {Dcm(id, <<1, 1, 1>>, i, Absent, kOf[<<1, 1, 1>>]) : i \in 1..MaxInst}
    \cup {Dcm(id, <<1, 1, 1>>, 1, Absent, Absent),
          Dcm(id, <<1, 1, 1>>, Absent, kOf[<<1, 1, 1>>], Absent),
          NoneDcm}

DeliverErr == Deliver(ErrFiles(ndelivered + 1))

NextErr == DeliverErr \/ VolGet \/ VolTimeout

\* The Volumizer fed with files some of which cannot be used.
SpecErr == InitRun /\ [][NextErr]_vars

\* ------------------------------- files that disagree on slices-per-volume
\* The files of the first acquisition, each reporting a slices-per-volume
\* value of its own in the number-of-locations tag.
VaryFiles(id) ==
    {Dcm(id, <<1, 1, 1>>, i, k, Absent) : i \in 1..MaxInst, k \in 1..MaxK}

DeliverVary == Deliver(VaryFiles(ndelivered + 1))

NextVary == DeliverVary \/ VolGet \/ VolTimeout

InitVary == Init /\ kOf = [e \in Identities |-> 1]

\* The Volumizer fed with files of one acquisition that report different
\* slices-per-volume values.
SpecVary == InitVary /\ [][NextVary]_vars

\* ------------------------------------------------------- the scanner's store
\* NumberOfTemporalPositions values of a series' files; Absent: no such field.
NtpValues == {Absent, 1, 2, 7}

\* A series directory appears under the latest exam, newest last.
AddSeries ==
    /\ Len(store) < MaxSeries
    /\ \E t \in NtpValues : store' = Append(store, [ntp |-> t, files |-> <<>>])
    /\ UNCHANGED <<volVars, sideVars, server_up, sf_current, sf_pc, series_q,
                   series_log, df_current, dicom_files, df_pc, tenure, file_log,
                   relisted>>

\* The scanner writes one more file into a series directory; a file's name
\* is its position in the directory.
AddFile ==
    /\ \E s \in 1..Len(store) :
          /\ Len(store[s].files) < MaxSeriesFiles
          /\ store' = [store EXCEPT ![s].files = Append(@, Len(@) + 1)]
    /\ UNCHANGED <<volVars, sideVars, server_up, sf_current, sf_pc, series_q,
                   series_log, df_current, dicom_files, df_pc, tenure, file_log,
                   relisted>>

\* The server becomes unreachable: the session is lost and connect() fails.
ServerDown ==
    /\ server_up
    /\ server_up' = FALSE
    /\ UNCHANGED <<volVars, sideVars, store, sf_current, sf_pc, series_q, series_log,
                   df_current, dicom_files, df_pc, tenure, file_log,
                   relisted>>

\* Connectivity returns.
ServerUp ==
    /\ ~server_up
    /\ server_up' = TRUE
    /\ UNCHANGED <<volVars, sideVars, store, sf_current, sf_pc, series_q,
                   series_log, df_current, dicom_files, df_pc, tenure, file_log,
                   relisted>>

\* ------------------------------------------------------------ ScannerClient
\* ScannerClient.reconnect then the protocol command: the NOOP or, after a
\* timeout reply, connect() raises when the server cannot be reached; no
\* caller catches it.
ClientRaises == ~server_up

\* ScannerClient.series_dirs: the series paths of the latest exam, in
\* list_dir's order. A series path is its position in the exam directory.
series_dirs == [i \in 1..Len(store) |-> i]

\* Mutant: the first entry of the latest exam.
first_series == IF store = <<>> THEN 0 ELSE series_dirs[1]

\* ScannerClient.latest_series: the last entry of the latest exam.
latest_series == Len(store)

\* ScannerClient.series_files: the file paths of a series, in list_dir's order.
series_files(s) == [j \in 1..Len(store[s].files) |-> <<s, j>>]

\* ScannerClient.retrieve_dicom on a file that decodes: file j of series s.
retrieve_dicom(path) == Dcm(path[2], <<1, path[1], 1>>, path[2], 1, Absent)

\* Mutant: the time-series test admits a series that just reaches the
\* threshold.
SeriesVerdictAtLeast(s, threshold, undecodable, held) ==
    IF store[s].files = <<>> THEN [pc |-> "KeyError", put |-> FALSE]
    ELSE IF undecodable
    THEN [pc |-> IF held THEN "debugger" ELSE "AttributeError", put |-> FALSE]
    ELSE [pc |-> "run",
          put |-> (IF store[s].ntp = Absent THEN 1 ELSE store[s].ntp) >= threshold]

\* ScannerClient.series_info as SeriesFinder.run uses it: an empty directory
\* gives {} and the ["NumTimepoints"] lookup raises KeyError; a first file
\* whose bytes do not decode (undecodable) stops in the debugger of
\* retrieve_dicom or, when the debugger lets it go on, gives None, whose
\* StudyDate raises AttributeError; otherwise the series is put iff
\* NumTimepoints > threshold.
SeriesVerdict(s, threshold, undecodable, held) ==
    IF store[s].files = <<>> THEN [pc |-> "KeyError", put |-> FALSE]
    ELSE IF undecodable
    THEN [pc |-> IF held THEN "debugger" ELSE "AttributeError", put |-> FALSE]
    ELSE [pc |-> "run",
          put |-> (IF store[s].ntp = Absent THEN 1 ELSE store[s].ntp) > threshold]

\* What can happen to the decoding of the n files one iteration fetches:
\* <<bad, held>>, where the bad-th file fetched does not decode (0: all do)
\* and held tells whether the debugger of retrieve_dicom holds the thread.
DecodeOutcomes(n) == {<<0, FALSE>>} \cup ((1..n) \X BOOLEAN)

\* ------------------------------------------------------------- SeriesFinder
\* Lines 69-79: the startup enumeration from the i-th series on; q collects
\* the series put on the queue before the loop ends or raises; the first file
\* of the bad-th series does not decode (0: all decode).
RECURSIVE StartupScan(_, _, _, _)
StartupScan(i, q, bad, held) ==
    IF i > Len(series_dirs) THEN [pc |-> "run", q |-> q]
    ELSE LET r == SeriesVerdict(series_dirs[i], 6, i = bad, held)
         IN  IF r.pc # "run" THEN [pc |-> r.pc, q |-> q]
             ELSE StartupScan(i + 1,
                              IF r.put THEN Append(q, series_dirs[i]) ELSE q,
                              bad, held)

\* The first files one iteration of SeriesFinder.run decodes.
SfFetches ==
    IF ClientRaises THEN 0
    ELSE IF sf_current = 0 THEN Len(store)
    ELSE IF sf_current # latest_series THEN 1
    ELSE 0

\* Lines 64-102: the body of one iteration of SeriesFinder.run.
SfIteration(bad, held) ==
    IF ClientRaises
    THEN /\ sf_pc' = "socket.error"
         /\ UNCHANGED <<sf_current, series_q, series_log>>
    ELSE IF sf_current = 0
    THEN LET r == StartupScan(1, <<>>, bad, held)
         IN  /\ series_q' = series_q \o r.q
             /\ series_log' = series_log \o r.q
             /\ sf_pc' = IF r.pc # "run" THEN r.pc
                         ELSE IF series_dirs = <<>> THEN "NameError"
                         ELSE "run"
             /\ sf_current' = IF r.pc = "run" /\ series_dirs # <<>>
                              THEN series_dirs[Len(series_dirs)]
                              ELSE sf_current
    ELSE IF sf_current # latest_series
    THEN LET r == SeriesVerdict(latest_series, 1, bad # 0, held)
         IN  /\ sf_current' = latest_series
             /\ sf_pc' = r.pc
             /\ series_q' = IF r.put THEN Append(series_q, latest_series)
                            ELSE series_q
             /\ series_log' = IF r.put
                              THEN Append(series_log, latest_series)
                              ELSE series_log
    ELSE UNCHANGED <<sf_current, sf_pc, series_q, series_log>>

\* Lines 61-104: one iteration of SeriesFinder.run.
SfPoll ==
    /\ sf_pc = "run"
    /\ \E o \in DecodeOutcomes(SfFetches) : SfIteration(o[1], o[2])
    /\ UNCHANGED <<volVars, sideVars, store, server_up, df_current, dicom_files, df_pc,
                   tenure, file_log, relisted>>

\* -------------------------------------------------------------- DicomFinder
\* Mutant: every listed file counts as new.
NewFilesAll(listed, seen) == listed

\* Lines 154-155: the listed files not yet in dicom_files, in listing order.
NewFiles(listed, seen) ==
    LET unseen(f) == f \notin seen IN SelectSeq(listed, unseen)

\* Lines 163-167: fetch the new files from the i-th on. The bytes of the
\* bad-th do not decode (0: all decode): the worker stops in the debugger of
\* retrieve_dicom (client.py 239-242) or, when the debugger lets it go on,
\* puts the None that retrieve_dicom returns on the file queue.
RECURSIVE FetchAll(_, _, _, _, _, _)
FetchAll(new_files, i, put, paths, bad, held) ==
    IF i > Len(new_files) THEN [pc |-> "run", put |-> put, paths |-> paths]
    ELSE LET f == new_files[i]
         IN  IF i = bad /\ held
             THEN [pc |-> "debugger", put |-> put, paths |-> paths]
             ELSE FetchAll(new_files, i + 1,
                           Append(put, IF i = bad THEN NoneDcm
                                       ELSE retrieve_dicom(f)),
                           Append(paths, f), bad, held)

\* Mutant: the seen-file set outlives the series it was built for.
SeenKept(seen) == seen

\* Line 183: self.dicom_files = set()
SeenReset(seen) == {}

\* Lines 144-185: one iteration of DicomFinder.run.
DfPoll ==
    /\ df_pc = "run"
    /\ \E o \in DecodeOutcomes(IF df_current # 0 /\ ~ClientRaises
                                THEN Len(NewFiles(series_files(df_current),
                                                  dicom_files))
                                ELSE 0) :
        LET bad == o[1]
            held == o[2]
        IN
        IF df_current # 0 /\ ClientRaises
        THEN /\ df_pc' = "socket.error"
             /\ UNCHANGED <<dicom_q, series_q, df_current, dicom_files,
                            tenure, file_log, relisted>>
        ELSE LET listed == IF df_current # 0 THEN series_files(df_current)
                           ELSE <<>>
                 new_files == NewFiles(listed, dicom_files)
                 r == FetchAll(new_files, 1, <<>>, <<>>, bad, held)
             IN  /\ dicom_q' = dicom_q \o r.put
                 /\ file_log' = file_log \o
                        [i \in 1..Len(r.paths) |-> <<tenure, r.paths[i]>>]
                 /\ df_pc' = r.pc
                 /\ IF r.pc # "run"
                    THEN UNCHANGED <<series_q, df_current, dicom_files, tenure,
                                     relisted>>
                    ELSE IF series_q # <<>>
                    THEN /\ df_current' = Head(series_q)
                         /\ series_q' = Tail(series_q)
                         /\ dicom_files' =
                                SeenReset(dicom_files \cup SetOf(new_files))
                         /\ tenure' = tenure + 1
                         /\ relisted' = FALSE
                    ELSE /\ dicom_files' = dicom_files \cup SetOf(new_files)
                         /\ relisted' = (relisted \/ (listed # <<>> /\ new_files = <<>>))
                         /\ UNCHANGED <<series_q, df_current, tenure>>
    /\ UNCHANGED <<volume_q, instance_numbers_needed, instance_numbers_gathered,
                   current_esa, current_slices, dcm, vol_pc, kOf, popped,
                   assembled, ndelivered, closed, store, server_up, sf_current,
                   sf_pc, series_log, sideVars>>

NextFinder ==
    \/ AddSeries \/ AddFile \/ ServerDown \/ ServerUp
    \/ SfPoll \/ DfPoll

\* SeriesFinder and DicomFinder polling a store that grows, over a connection
\* that comes and goes.
InitFinder == Init /\ kOf = [e \in Identities |-> 1]

SpecFinder == InitFinder /\ [][NextFinder]_vars

\* ------------------------------------------------- series that appear late
\* Number of series directories that appear after the workers were started.
MaxNew == 2

\* The scanner starts a run: a series directory appears under the latest
\* exam, its first file written.
AppearSeries ==
    /\ Len(store) < 1 + MaxNew
    /\ \E t \in NtpValues : store' = Append(store, [ntp |-> t, files |-> <<1>>])
    /\ UNCHANGED <<volVars, sideVars, server_up, sf_current, sf_pc, series_q,
                   series_log, df_current, dicom_files, df_pc, tenure, file_log,
                   relisted>>

\* Lines 61-104: one iteration of SeriesFinder.run, every file decoding.
SfPollDecoded ==
    /\ sf_pc = "run"
    /\ SfIteration(0, FALSE)
    /\ UNCHANGED <<volVars, sideVars, store, server_up, df_current, dicom_files,
                   df_pc, tenure, file_log, relisted>>

NextAppear == AppearSeries \/ AddFile \/ SfPollDecoded \/ DfPoll

\* The workers are started on an exam that holds one time series.
InitAppear ==
    /\ InitPipeline /\ InitListing /\ InitSession /\ InitStop
    /\ kOf = [e \in Identities |-> 1]
    /\ store = <<[ntp |-> 7, files |-> <<1>>]>>

\* SeriesFinder and DicomFinder on a reachable server while the scanner starts
\* further runs; the SeriesFinder thread keeps polling.
SpecAppear == InitAppear /\ [][NextAppear]_vars /\ WF_vars(SfPollDecoded)

\* ------------------------------------------------------ the client sessions
\* Number of connect() calls a client makes after its construction.
MaxConnects == 2

\* The method calls self.reconnect() before its protocol command:
\* ScannerClient.list_dir (line 82) and retrieve_file (line 229) do; the
\* list_dir and retrieve_file that ScannerSFTPClient overrides (lines 328-342)
\* do not.
CallsReconnect(b) == b = "ScannerClient"

\* The session after reconnect(): ScannerClient sends NOOP and, on the
\* error_temp reply of a timed-out session, calls connect(); the reconnect of
\* ScannerSFTPClient is `pass`.
SessionAfterReconnect(b) ==
    IF b = "ScannerClient" /\ session[b] = "timed_out" THEN "live"
    ELSE session[b]

\* The connect() calls after reconnect().
ConnectsAfterReconnect(b) ==
    IF b = "ScannerClient" /\ session[b] = "timed_out" THEN connects[b] + 1
    ELSE connects[b]

\* The server drops the idle session of a client.
SessionTimeout(b) ==
    /\ session[b] = "live"
    /\ connects[b] < MaxConnects
    /\ session' = [session EXCEPT ![b] = "timed_out"]
    /\ UNCHANGED <<volVars, finderVars, listingVars, connects, last_op,
                   haltVars, df_listed>>

\* A caller invokes reconnect() itself.
Reconnect(b) ==
    /\ session' = [session EXCEPT ![b] = SessionAfterReconnect(b)]
    /\ connects' = [connects EXCEPT ![b] = ConnectsAfterReconnect(b)]
    /\ last_op' = [last_op EXCEPT ![b] = [op |-> "reconnect", probed |-> TRUE,
                                          ran_on |-> session[b]]]
    /\ UNCHANGED <<volVars, finderVars, listingVars, haltVars, df_listed>>

\* list_dir or retrieve_file: reconnect() when the method calls it, then the
\* protocol command on the session the client then holds.
ClientOp(b, name) ==
    LET after == IF CallsReconnect(b) THEN SessionAfterReconnect(b)
                 ELSE session[b]
    IN  /\ session' = [session EXCEPT ![b] = after]
        /\ connects' = [connects EXCEPT ![b] =
               IF CallsReconnect(b) THEN ConnectsAfterReconnect(b) ELSE @]
        /\ last_op' = [last_op EXCEPT ![b] = [op |-> name,
                                              probed |-> CallsReconnect(b),
                                              ran_on |-> after]]
        /\ UNCHANGED <<volVars, finderVars, listingVars, haltVars, df_listed>>

ListDir == \E b \in Bindings : ClientOp(b, "list_dir")

RetrieveFile == \E b \in Bindings : ClientOp(b, "retrieve_file")

NextSession ==
    \/ \E b \in Bindings : SessionTimeout(b)
    \/ \E b \in Bindings : Reconnect(b)
    \/ ListDir
    \/ RetrieveFile

\* The two clients used over sessions that the server drops when idle.
SpecSession == InitFinder /\ [][NextSession]_vars

\* ------------------------------------------------------ directory listings
\* Number of entries of a directory listing.
MaxEntries == 3

\* The characters of the listings, in the order of their character codes.
AsciiOrder == <<" ", "-", ".", "0", "1", "2", "3", "4", "5", "6", "7", "8",
                "9", "D", "S", "_", "a", "d", "e", "h", "o", "r", "t">>

\* ord(c)
Ord(c) == CHOOSE i \in 1..Len(AsciiOrder) : AsciiOrder[i] = c

\* A character of a digit run of the pattern [0-9]+.
IsDigit(c) == c \in {"0", "1", "2", "3", "4", "5", "6", "7", "8", "9"}

\* int() of a run of digits.
RECURSIVE IntOf(_)
IntOf(digits) ==
    IF digits = <<>> THEN 0
    ELSE 10 * IntOf(SubSeq(digits, 1, Len(digits) - 1))
         + (Ord(digits[Len(digits)]) - Ord("0"))

\* str < str: the first differing character decides, a proper prefix is less.
StrLess(x, y) ==
    \E i \in 1..(Len(x) + 1) :
        /\ \A j \in 1..(i - 1) : j <= Len(y) /\ x[j] = y[j]
        /\ \/ i = Len(x) + 1 /\ Len(y) >= i
           \/ i <= Len(x) /\ i <= Len(y) /\ Ord(x[i]) < Ord(y[i])

\* s.startswith(prefix)
StartsWith(s, prefix) ==
    Len(s) >= Len(prefix) /\ SubSeq(s, 1, Len(prefix)) = prefix

\* sub in s
Contains(s, sub) ==
    \E i \in 1..(Len(s) - Len(sub) + 1) : SubSeq(s, i, i + Len(sub) - 1) = sub

\* The junk name the listings drop.
DSStore == <<".", "D", "S", "_", "S", "t", "o", "r", "e">>

\* The time column of an entry older than a year: a year, without ":".
Old == 0

\* The text of an ls line as the tests of _parse_dir_output see it: the file
\* type character that opens the permissions column, then the further
\* columns (which hold numbers, names of owners and a date), then the name.
Line(e) == <<"-", " ">> \o e.name

\* The first position from i on whose character is not of the run (digits
\* when d, other characters when not).
RECURSIVE RunEnd(_, _, _)
RunEnd(s, i, d) ==
    IF i > Len(s) \/ IsDigit(s[i]) # d THEN i ELSE RunEnd(s, i + 1, d)

\* re.split("([0-9]+)", s) from position i on: text, digits, text, ..., text,
\* the texts possibly empty.
RECURSIVE SplitDigits(_, _)
SplitDigits(s, i) ==
    LET j == RunEnd(s, i, FALSE)
        text == SubSeq(s, i, j - 1)
    IN  IF j > Len(s) THEN <<text>>
        ELSE LET k == RunEnd(s, j, TRUE)
             IN  <<text, SubSeq(s, j, k - 1)>> \o SplitDigits(s, k)

\* Mutant: the digit runs are left as text.
alphanum_key_text(entry) ==
    LET parts == SplitDigits(entry.name, 1)
    IN  [i \in 1..Len(parts) |-> [isint |-> FALSE, n |-> 0, text |-> parts[i]]]

\* alphanum_key (lines 99-108): the parts of the name, the digit runs as
\* integers. entry.split()[-1] is the name column.
alphanum_key(entry) ==
    LET parts == SplitDigits(entry.name, 1)
        isdigit(part) == part # <<>> /\ \A i \in 1..Len(part) : IsDigit(part[i])
    IN  [i \in 1..Len(parts) |->
            IF isdigit(parts[i])
            THEN [isint |-> TRUE, n |-> IntOf(parts[i]), text |-> <<>>]
            ELSE [isint |-> FALSE, n |-> 0, text |-> parts[i]]]

\* Python 2 order of two parts: integers by value, texts as strings, an
\* integer before a text.
PartLess(a, b) ==
    IF a.isint /\ b.isint THEN a.n < b.n
    ELSE IF ~a.isint /\ ~b.isint THEN StrLess(a.text, b.text)
    ELSE a.isint

\* list < list: the first differing element decides, a proper prefix is less.
KeyLess(x, y) ==
    \E i \in 1..(Len(x) + 1) :
        /\ \A j \in 1..(i - 1) : j <= Len(y) /\ x[j] = y[j]
        /\ \/ i = Len(x) + 1 /\ Len(y) >= i
           \/ i <= Len(x) /\ i <= Len(y) /\ PartLess(x[i], y[i])

\* list.sort: the stable sort of s, where less[i][j] tells whether s[i]
\* compares less than s[j]. An element comes after those that are less and
\* those that are no greater and stood before it.
\* (The list and the comparisons are bound as values, to be computed once.)
StableSort(s, less) ==
    CHOOSE out \in
        {[r \in 1..Len(l) |->
             l[CHOOSE i \in 1..Len(l) :
                 Cardinality({j \in 1..Len(l) :
                                 \/ lt[j][i]
                                 \/ ~lt[i][j] /\ j < i}) = r - 1]] :
         l \in {s}, lt \in {less}} : TRUE

\* The comparisons list.sort makes among the keys of a list.
KeyOrder(keys) ==
    CHOOSE t \in
        {[i \in 1..Len(k) |-> [j \in 1..Len(k) |-> KeyLess(k[i], k[j])]] :
         k \in {keys}} : TRUE

\* ScannerClient._alphanumeric_sort (lines 91-110)
alphanumeric_sort(list) ==
    StableSort(list, KeyOrder([i \in 1..Len(list) |-> alphanum_key(list[i])]))

\* "{:06d}".format(i): six digits, zero-padded (i below a million).
Format06(i) ==
    LET pow == <<100000, 10000, 1000, 100, 10, 1>>
    IN  [p \in 1..6 |-> AsciiOrder[Ord("0") + ((i \div pow[p]) % 10)]]

\* Mutant: the timestamp carries no list position.
TimestampCoarse(e, i) == <<e.time, 0>>

\* Lines 135-138: the minute of the time column, then the list position
\* parsed back as the microseconds (%f) of the timestamp.
Timestamp(e, i) == <<e.time, IntOf(Format06(i))>>

\* (timestamp, size, name) < (timestamp, size, name)
ContentLess(a, b) ==
    \/ a.timestamp[1] < b.timestamp[1]
    \/ /\ a.timestamp[1] = b.timestamp[1]
       /\ \/ a.timestamp[2] < b.timestamp[2]
          \/ /\ a.timestamp[2] = b.timestamp[2]
             /\ \/ a.size < b.size
                \/ a.size = b.size /\ StrLess(a.name, b.name)

\* Lines 119-141: the entries from position i on, those older than a year
\* left out, each with the timestamp its position gives it.
RECURSIVE Contents(_, _)
Contents(kept_list, i) ==
    IF i > Len(kept_list) THEN <<>>
    ELSE (IF kept_list[i].time = Old THEN <<>>
          ELSE <<[timestamp |-> Timestamp(kept_list[i], i),
                  size |-> kept_list[i].size,
                  name |-> kept_list[i].name]>>)
         \o Contents(kept_list, i + 1)

\* contents.sort() (line 150)
sort_contents(contents) ==
    CHOOSE out \in
        {StableSort(c, [i \in 1..Len(c) |-> [j \in 1..Len(c) |->
                           ContentLess(c[i], c[j])]]) :
         c \in {contents}} : TRUE

\* ScannerClient._parse_dir_output (lines 112-151): sort by name, drop the
\* lines that start with "." or hold ".DS_Store", build the contents, sort.
parse_dir_output(list) ==
    LET sorted_list == alphanumeric_sort(list)
        keep(x) == ~StartsWith(Line(x), <<".">>) /\ ~Contains(Line(x), DSStore)
    IN  sort_contents(Contents(SelectSeq(sorted_list, keep), 1))

\* file_list.sort(key=lambda x: x[0]) (line 325)
sort_by_time(list) ==
    CHOOSE out \in
        {StableSort(l, [i \in 1..Len(l) |-> [j \in 1..Len(l) |->
                           l[i].time < l[j].time]]) :
         l \in {list}} : TRUE

\* ScannerSFTPClient._parse_dir_output (lines 318-326) on the tuples
\* (st_atime, st_size, name) that its list_dir builds: drop by name, sort by
\* access time.
sftp_parse_dir_output(list) ==
    LET keep(x) == ~StartsWith(x.name, <<".">>) /\ ~Contains(x.name, DSStore)
    IN  sort_by_time(SelectSeq(list, keep))

\* File names with numbers that are not zero-padded.
SortNames == {<<"1">>, <<"2">>, <<"1", "0">>,
              <<"a", ".", "1", "0", ".", "d">>,
              <<"a", ".", "1", "1", ".", "d">>,
              <<"a", ".", "1", "0", "0", ".", "d">>}

\* File names of a directory that also holds a hidden file and the junk file.
ListNames == {<<"2">>, <<"1", "0">>, <<".", "h">>, DSStore}

\* The entries a listing can hold: a name, a size and a time (the minute of
\* the ls time column, or Old; the st_atime of the SFTP attributes).
Entries ==
    {[name |-> n, size |-> 1, time |-> 1] : n \in SortNames}
    \cup {[name |-> n, size |-> z, time |-> t] :
              n \in ListNames, z \in {1, 2}, t \in {Old, 1, 2}}

\* The listings of a directory: its entries in any order, no name twice,
\* drawn from one of the two sets of names.
Listings ==
    {l \in UNION {[1..n -> Entries] : n \in 0..MaxEntries} :
        /\ \A i, j \in 1..Len(l) : i # j => l[i].name # l[j].name
        /\ \/ \A i \in 1..Len(l) : l[i].name \in SortNames /\ l[i].size = 1
                                   /\ l[i].time = 1
           \/ \A i \in 1..Len(l) : l[i].name \in ListNames}

\* A caller hands the listing to _alphanumeric_sort, which sorts it in place.
AlphanumericSort ==
    /\ list_op = "none"
    /\ list_op' = "_alphanumeric_sort"
    /\ list_out' = alphanumeric_sort(file_list)
    /\ UNCHANGED <<volVars, finderVars, file_list, sessionVars, haltVars, df_listed>>

\* ScannerClient.list_dir hands the listing to its _parse_dir_output.
FtpParse ==
    /\ list_op = "none"
    /\ list_op' = "ScannerClient"
    /\ list_out' = parse_dir_output(file_list)
    /\ UNCHANGED <<volVars, finderVars, file_list, sessionVars, haltVars, df_listed>>

\* ScannerSFTPClient.list_dir hands the listing to its _parse_dir_output.
SftpParse ==
    /\ list_op = "none"
    /\ list_op' = "ScannerSFTPClient"
    /\ list_out' = sftp_parse_dir_output(file_list)
    /\ UNCHANGED <<volVars, finderVars, file_list, sessionVars, haltVars, df_listed>>

NextListing == AlphanumericSort \/ FtpParse \/ SftpParse

InitListings ==
    /\ InitWorkers /\ InitSession /\ InitStop
    /\ kOf = [e \in Identities |-> 1]
    /\ file_list \in Listings
    /\ list_out = <<>>
    /\ list_op = "none"

\* The listing methods of the two clients applied to the listings.
SpecListing == InitListings /\ [][NextListing]_vars

\* --------------------------------------------------------------- halting
\* Finder.stopped (lines 38-39)
stopped(w) == stop_event[w]

\* The first place of the body of each worker's loop.
BodyStart(w) ==
    CASE w = "SeriesFinder" -> "poll"
      [] w = "DicomFinder" -> "files"
      [] w = "Volumizer" -> "get"

\* Mutant: a worker that finds its stop event set within an iteration
\* returns from there.
AfterOrReturn(w, place) ==
    IF stopped(w) THEN "returned"
    ELSE IF place = "files" THEN "series"
    ELSE IF place = "get" THEN "process"
    ELSE "top"

\* Where control goes when the part of the loop body at `place` is done:
\* to the next part or, past the sleep that ends the body, to the loop test.
After(w, place) ==
    IF place = "files" THEN "series"
    ELSE IF place = "get" THEN "process"
    ELSE "top"

\* Finder.halt (lines 31-36): the stop event is set, whatever the worker is
\* doing.
HaltCall(w) ==
    /\ ~stop_event[w]
    /\ stop_event' = [stop_event EXCEPT ![w] = TRUE]
    /\ halted_at' = [halted_at EXCEPT ![w] = loop_at[w]]
    /\ UNCHANGED <<volVars, finderVars, listingVars, sessionVars, loop_at,
                   df_listed>>

\* `while not self.stopped()` (lines 61, 144, 256): run returns or the next
\* iteration begins.
LoopTest(w) ==
    /\ loop_at[w] = "top"
    /\ loop_at' = [loop_at EXCEPT ![w] =
           IF stopped(w) THEN "returned" ELSE BodyStart(w)]
    /\ UNCHANGED <<volVars, finderVars, listingVars, sessionVars, stop_event,
                   halted_at, df_listed>>

\* Lines 64-104 of SeriesFinder.run, every file decoding.
SfBody ==
    /\ loop_at["SeriesFinder"] = "poll"
    /\ SfIteration(0, FALSE)
    /\ loop_at' = [loop_at EXCEPT !["SeriesFinder"] =
           IF sf_pc' = "run" THEN After("SeriesFinder", "poll") ELSE "raised"]
    /\ UNCHANGED <<volVars, store, server_up, df_current, dicom_files, df_pc,
                   tenure, file_log, relisted, listingVars, sessionVars,
                   stop_event, halted_at, df_listed>>

\* Lines 146-170 of DicomFinder.run, every file decoding.
DfFiles ==
    /\ loop_at["DicomFinder"] = "files"
    /\ df_listed' = (df_listed \/ (df_current # 0 /\ ~ClientRaises))
    /\ IF df_current = 0
       THEN UNCHANGED <<dicom_q, dicom_files, file_log, df_pc, relisted>>
       ELSE IF ClientRaises
       THEN /\ df_pc' = "socket.error"
            /\ UNCHANGED <<dicom_q, dicom_files, file_log, relisted>>
       ELSE LET series_list == series_files(df_current)
                new_files == NewFiles(series_list, dicom_files)
                r == FetchAll(new_files, 1, <<>>, <<>>, 0, FALSE)
            IN  /\ dicom_q' = dicom_q \o r.put
                /\ file_log' = file_log \o
                       [i \in 1..Len(r.paths) |-> <<tenure, r.paths[i]>>]
                /\ dicom_files' = dicom_files \cup SetOf(new_files)
                /\ relisted' = (relisted \/
                                (series_list # <<>> /\ new_files = <<>>))
                /\ df_pc' = r.pc
    /\ loop_at' = [loop_at EXCEPT !["DicomFinder"] =
           IF df_pc' = "run" THEN After("DicomFinder", "files") ELSE "raised"]
    /\ UNCHANGED <<volume_q, instance_numbers_needed, instance_numbers_gathered,
                   current_esa, current_slices, dcm, vol_pc, kOf, popped,
                   assembled, ndelivered, closed, store, server_up, sf_current,
                   sf_pc, series_q, series_log, df_current, tenure,
                   listingVars, sessionVars, stop_event, halted_at>>

\* Lines 172-185 of DicomFinder.run.
DfSeries ==
    /\ loop_at["DicomFinder"] = "series"
    /\ IF series_q # <<>>
       THEN /\ df_current' = Head(series_q)
            /\ series_q' = Tail(series_q)
            /\ dicom_files' = SeenReset(dicom_files)
            /\ tenure' = tenure + 1
            /\ relisted' = FALSE
            /\ df_listed' = FALSE
       ELSE UNCHANGED <<df_current, series_q, dicom_files, tenure, relisted,
                        df_listed>>
    /\ loop_at' = [loop_at EXCEPT !["DicomFinder"] =
           After("DicomFinder", "series")]
    /\ UNCHANGED <<volVars, store, server_up, sf_current, sf_pc, series_log,
                   df_pc, file_log, listingVars, sessionVars, stop_event,
                   halted_at>>

\* Lines 259-270 of Volumizer.run: the bounded pop returns a file, or times
\* out and the iteration goes on only with a satisfied needed set.
VolPop ==
    /\ loop_at["Volumizer"] = "get"
    /\ IF dicom_q # <<>>
       THEN /\ dcm' = Head(dicom_q)
            /\ dicom_q' = Tail(dicom_q)
            /\ popped' = Append(popped, Head(dicom_q))
            /\ loop_at' = [loop_at EXCEPT !["Volumizer"] =
                   After("Volumizer", "get")]
       ELSE /\ UNCHANGED <<dcm, dicom_q, popped>>
            /\ loop_at' = [loop_at EXCEPT !["Volumizer"] =
                   IF Len(instance_numbers_needed) > 0
                      /\ missing_slices(instance_numbers_needed,
                                        instance_numbers_gathered) = {}
                   THEN After("Volumizer", "get")
                   ELSE After("Volumizer", "sleep")]
    /\ UNCHANGED <<volume_q, instance_numbers_needed, instance_numbers_gathered,
                   current_esa, current_slices, vol_pc, kOf, assembled,
                   ndelivered, closed, finderVars, listingVars, sessionVars,
                   stop_event, halted_at, df_listed>>

\* Lines 272-337 of Volumizer.run.
VolProcess ==
    /\ loop_at["Volumizer"] = "process"
    /\ Process(dcm, Len(popped))
    /\ loop_at' = [loop_at EXCEPT !["Volumizer"] =
           IF vol_pc' = "run" THEN After("Volumizer", "process") ELSE "raised"]
    /\ UNCHANGED <<dicom_q, dcm, popped, kOf, ndelivered, closed, finderVars,
                   listingVars, sessionVars, stop_event, halted_at, df_listed>>

\* One step of the run method of worker w.
WorkerStep(w) ==
    \/ LoopTest(w)
    \/ w = "SeriesFinder" /\ SfBody
    \/ w = "DicomFinder" /\ (DfFiles \/ DfSeries)
    \/ w = "Volumizer" /\ (VolPop \/ VolProcess)

NextHalting ==
    \/ \E w \in Workers : HaltCall(w)
    \/ \E w \in Workers : LoopTest(w)
    \/ SfBody
    \/ DfFiles
    \/ DfSeries
    \/ VolPop
    \/ VolProcess

\* The exams the workers are started on: some series of seven timepoints,
\* all holding the same number of files.
HaltStores ==
    {[s \in 1..n |-> [ntp |-> 7, files |-> [j \in 1..f |-> j]]] :
        n \in 0..MaxSeries, f \in 0..MaxSeriesFiles}

InitHalting ==
    /\ InitPipeline /\ InitListing /\ InitSession /\ InitStop
    /\ kOf = [e \in Identities |-> 1]
    /\ store \in HaltStores

\* The three workers, each on its thread, and callers that may halt them:
\* a thread that can take a step of its run method takes it.
SpecHalting ==
    InitHalting /\ [][NextHalting]_vars
    /\ \A w \in Workers : WF_vars(WorkerStep(w))

\* ---------------------------------------- the series queue's two ends
\* Mutant: the queue never reports itself empty.
never_empty(q) == FALSE

\* Queue.empty (line 172)
empty(q) == q = <<>>

\* Line 172 of DicomFinder.run: the non-blocking test of the series queue.
DfEmptyTest ==
    /\ loop_at["DicomFinder"] = "series"
    /\ loop_at' = [loop_at EXCEPT !["DicomFinder"] =
           IF ~empty(series_q) THEN "adopt" ELSE After("DicomFinder", "series")]
    /\ UNCHANGED <<volVars, finderVars, listingVars, sessionVars, stop_event,
                   halted_at, df_listed>>

\* Lines 175-185 of DicomFinder.run: the untimed get(), which returns once
\* the queue holds an item, and the reset that follows it.
DfGet ==
    /\ loop_at["DicomFinder"] = "adopt"
    /\ series_q # <<>>
    /\ df_current' = Head(series_q)
    /\ series_q' = Tail(series_q)
    /\ dicom_files' = SeenReset(dicom_files)
    /\ tenure' = tenure + 1
    /\ relisted' = FALSE
    /\ df_listed' = FALSE
    /\ loop_at' = [loop_at EXCEPT !["DicomFinder"] =
           After("DicomFinder", "adopt")]
    /\ UNCHANGED <<volVars, store, server_up, sf_current, sf_pc, series_log,
                   df_pc, file_log, listingVars, sessionVars, stop_event,
                   halted_at>>

\* One step of DicomFinder.run, the test and the get of the series queue
\* taken apart.
DfStep == LoopTest("DicomFinder") \/ DfFiles \/ DfEmptyTest \/ DfGet

NextQueue ==
    \/ AppearSeries
    \/ LoopTest("SeriesFinder")
    \/ SfBody
    \/ LoopTest("DicomFinder")
    \/ DfFiles
    \/ DfEmptyTest
    \/ DfGet

\* SeriesFinder puts on the series queue while DicomFinder, its only
\* consumer, is anywhere in its loop; the DicomFinder thread keeps running.
SpecQueue == InitAppear /\ [][NextQueue]_vars /\ WF_vars(DfStep)

\* ------------------------------------------------------------------ claims
\* The instance numbers of a volume's slices, in stacking order.
Insts(v) == [i \in 1..Len(v.image) |-> v.image[i].InstanceNumber]

\* The identity recorded in a volume.
VolEsa(v) == <<v.exam, v.series, v.acquisition>>

\* The block of the N-th volume (N = 0, 1, ...) for slices-per-volume k.
Block(k, N) == [i \in 1..k |-> k * N + i]

\* Every file delivered so far, popped or still queued.
Delivered == popped \o dicom_q

\* The files in s are n*k files of one identity with slices-per-volume k whose
\* instance numbers are 1..n*k, each once.
IsRun(s, n, k) ==
    /\ Len(s) = n * k
    /\ \A i \in 1..Len(s) : /\ dicom_esa(s[i]) = dicom_esa(s[1])
                             /\ SlicesPerVolume(s[i]) = k
    /\ {s[i].InstanceNumber : i \in 1..Len(s)} = 1..(n * k)

\* C1: when the files popped so far are the k files 1..k of one acquisition
\* with slices_per_volume = k, in whatever order, exactly one volume is on the
\* volume queue and its slices are in the order 1, 2, ..., k.
C1_OneVolumeInOrder ==
    \A k \in 1..MaxK :
        IsRun(popped, 1, k) =>
            /\ Len(volume_q) = 1
            /\ Insts(volume_q[1]) = Block(k, 0)

\* C1 witness: the k >= 2 files arrived out of order and the volume is out.
C1_Witness ==
    \E k \in 2..MaxK :
        /\ IsRun(popped, 1, k)
        /\ popped[1].InstanceNumber # 1
        /\ Len(volume_q) = 1

\* C2: slices pending for a superseded identity are discarded at the
\* boundary: the pool holds only slices of the tracked identity, and every
\* slice of an emitted volume has the identity tracked at its emission.
C2_OldSlicesDiscarded ==
    /\ \A j \in 1..Len(current_slices) :
            dicom_esa(current_slices[j]) = current_esa
    /\ \A i \in 1..Len(volume_q) :
            \A j \in 1..Len(volume_q[i].image) :
                dicom_esa(volume_q[i].image[j]) = assembled[i].esa

\* The volumes a run of n blocks of k must produce, in emission order.
RunEmitted(n, k) ==
    /\ Len(volume_q) = n
    /\ \A j \in 1..n : Insts(volume_q[j]) = Block(k, j - 1)

\* The run of n*k files is delivered in full and nothing follows it.
RunOver(n, k) == closed /\ IsRun(Delivered, n, k)

\* Some run of n blocks of k is delivered in full with nothing following.
RunDone == \E n \in 1..MaxFiles : \E k \in 1..MaxK : RunOver(n, k)

\* ... and its n volumes are on the volume queue, block after block.
RunAllOut ==
    \E n \in 1..MaxFiles : \E k \in 1..MaxK : RunOver(n, k) /\ RunEmitted(n, k)

\* Of such a run never more than n volumes are out, the j-th of block j.
RunPrefix ==
    \A n \in 1..MaxFiles : \A k \in 1..MaxK :
        RunOver(n, k) =>
            /\ Len(volume_q) <= n
            /\ \A j \in 1..Len(volume_q) : Insts(volume_q[j]) = Block(k, j - 1)

\* C3: once the n*k files 1..n*k of one acquisition are all delivered, in
\* any order, with nothing following, the volume queue comes to hold exactly n
\* volumes, the j-th of block (j-1)*k+1 .. j*k, and never holds any other.
C3_RunEmitsAllBlocks == [](RunPrefix) /\ (RunDone ~> RunAllOut)

\* C3 witness: two blocks of two, the higher block delivered first, both out.
C3_Witness ==
    /\ RunOver(2, 2)
    /\ Delivered[1].InstanceNumber > 2
    /\ RunEmitted(2, 2)

\* C4: every volume on the volume queue has exactly slices_per_volume slices,
\* whose instance numbers are the needed block of the moment it was emitted: a
\* run of consecutive numbers, each once, ascending.
C4_VolumesComplete ==
    \A i \in 1..Len(volume_q) :
        /\ Len(volume_q[i].image) = assembled[i].spv
        /\ Insts(volume_q[i]) = assembled[i].needed
        /\ \A j \in 1..(Len(volume_q[i].image) - 1) :
               Insts(volume_q[i])[j + 1] = Insts(volume_q[i])[j] + 1

\* C4 witness: a volume of two slices or more was emitted from a pool that
\* held a duplicate, after files of two identities were popped.
C4_Witness ==
    /\ Len(volume_q) >= 1
    /\ Len(volume_q[Len(volume_q)].image) >= 2
    /\ \E i, j \in 1..Len(popped) :
           /\ i < j
           /\ popped[i].InstanceNumber = popped[j].InstanceNumber
           /\ dicom_esa(popped[i]) = dicom_esa(popped[j])
    /\ \E i, j \in 1..Len(popped) : dicom_esa(popped[i]) # dicom_esa(popped[j])

\* C5: no two volumes on the volume queue have the same identity and the
\* same instance-number block.
C5_NoDuplicateVolume ==
    \A i, j \in 1..Len(volume_q) :
        i < j => ~(/\ VolEsa(volume_q[i]) = VolEsa(volume_q[j])
                   /\ Insts(volume_q[i]) = Insts(volume_q[j]))

\* The first file of the stretch of one identity that popped[p] belongs to.
StretchStart(p) ==
    CHOOSE i \in 1..p :
        /\ \A h \in i..p : dicom_esa(popped[h]) = dicom_esa(popped[p])
        /\ i > 1 => dicom_esa(popped[i - 1]) # dicom_esa(popped[p])

\* The volumes emitted before the i-th in the same stretch of one identity.
EarlierInStretch(i) ==
    {j \in 1..(i - 1) : StretchStart(assembled[j].at) = StretchStart(assembled[i].at)}

\* The volumes emitted so far in the stretch the worker is in.
InCurrentStretch ==
    {j \in 1..Len(assembled) : StretchStart(assembled[j].at) = StretchStart(Len(popped))}

\* C6: while one identity with slices-per-volume k is tracked, the needed
\* set for its N-th volume is the block kN+1 .. kN+k, and its volumes are
\* emitted in strictly increasing block order.
C6_NeededIsNthBlock ==
    /\ (Len(popped) > 0 /\ vol_pc = "run") =>
           instance_numbers_needed =
               Block(kOf[current_esa], Cardinality(InCurrentStretch))
    /\ \A i \in 1..Len(assembled) :
           /\ assembled[i].needed =
                  Block(kOf[assembled[i].esa], Cardinality(EarlierInStretch(i)))
           /\ \A j \in EarlierInStretch(i) :
                  assembled[j].needed[1] < assembled[i].needed[1]

\* C6 witness: a second volume of one stretch is out, after a boundary.
C6_Witness ==
    /\ \E i \in 1..Len(assembled) : EarlierInStretch(i) # {}
    /\ \E i \in 1..Len(popped) : dicom_esa(popped[i]) # dicom_esa(popped[1])

\* The current series' directory holds nothing DicomFinder has not yet put.
Settled ==
    /\ df_pc = "run"
    /\ df_current # 0
    /\ SetOf(series_files(df_current)) \subseteq dicom_files

\* C7: the pool holds at most one file per instance number, and a volume is
\* built from the latest file popped for each of its instance numbers (last
\* write wins).
C7_PoolKeyedLastWins ==
    /\ \A i, j \in 1..Len(instance_numbers_gathered) :
           i # j => instance_numbers_gathered[i] # instance_numbers_gathered[j]
    /\ \A i \in 1..Len(volume_q) :
           \A j \in 1..Len(volume_q[i].image) :
               ~\E h \in StretchStart(assembled[i].at)..assembled[i].at :
                   /\ popped[h].InstanceNumber = volume_q[i].image[j].InstanceNumber
                   /\ dicom_esa(popped[h]) = dicom_esa(volume_q[i].image[j])
                   /\ popped[h].id > volume_q[i].image[j].id

\* C8: no per-file failure ends a worker: Volumizer.run is not ended by the
\* exception a file without the tags (or the None of a failed decode) raises,
\* and DicomFinder.run is not stopped by a file that does not decode.
C8_FileFailureSkipped ==
    /\ vol_pc \notin {"TypeError", "AttributeError"}
    /\ df_pc # "debugger"

\* C9: a connectivity failure during a poll ends neither SeriesFinder.run
\* nor DicomFinder.run.
C9_OutageSurvived ==
    /\ sf_pc # "socket.error"
    /\ df_pc # "socket.error"

\* C10: over the tenure of one current series no file path is put on the
\* file queue twice, and a poll of a directory all of whose files were put
\* already puts nothing on the file queue.
C10_RelistingIdempotent ==
    /\ [](\A i, j \in 1..Len(file_log) : i < j => file_log[i] # file_log[j])
    /\ [][Settled => dicom_q' = dicom_q]_vars

\* C10 witness: the current series holds two files, both put in this tenure,
\* and its directory has since been listed again with nothing new in it.
C10_Witness ==
    /\ Settled
    /\ relisted
    /\ Cardinality(dicom_files) >= 2
    /\ \E i \in 1..Len(file_log) : file_log[i] = <<tenure, <<df_current, 2>>>>

\* C11: with a skip count of two, the first two distinct series SeriesFinder
\* encounters are never put on the series queue. Series are encountered in
\* the order of the exam directory, so a queued series that is first or
\* second in the exam is among the first two encountered.
C11_FirstTwoSkipped ==
    \A i \in 1..Len(series_log) : series_log[i] \notin {1, 2}

\* The series one iteration of SeriesFinder.run examines: all of the exam at
\* startup, the latest one afterwards.
Examined == IF sf_current = 0 THEN 1..Len(store) ELSE {latest_series}

\* The series the step put on the series queue.
NewlyPut == {series_log'[i] : i \in (Len(series_log) + 1)..Len(series_log')}

\* C12: a series whose first file reports one timepoint, or carries no
\* NumberOfTemporalPositions, is never put on the series queue, by either
\* branch; a series of seven timepoints is put by the iteration that
\* examines it.
C12_ThresholdApplied ==
    /\ [](\A i \in 1..Len(series_log) :
              store[series_log[i]].ntp \notin {Absent, 1})
    /\ [][(sf_pc = "run" /\ sf_pc' = "run" /\ sf_current' # sf_current) =>
              \A s \in Examined : store[s].ntp = 7 => s \in NewlyPut]_vars

\* C12 witness: a series of seven timepoints is on the series queue's log and
\* the series examined last, by a later poll, has one timepoint (or no such
\* field) and was not put.
C12_Witness ==
    /\ sf_pc = "run"
    /\ sf_current = 2
    /\ store[2].ntp \in {Absent, 1}
    /\ store[1].ntp = 7
    /\ series_log = <<1>>

\* C13: the later-poll branch applies the test of the startup enumeration:
\* every series put on the series queue, by whichever branch, passes the
\* startup test and the later-poll test alike.
C13_SameTestBothBranches ==
    \A i \in 1..Len(series_log) :
        /\ SeriesVerdict(series_log[i], 6, FALSE, FALSE).put
        /\ SeriesVerdict(series_log[i], 1, FALSE, FALSE).put

\* C14: a series directory that is empty when SeriesFinder.run examines it
\* does not make the worker fail.
C14_EmptySeriesRetried == sf_pc # "KeyError"

\* The bounded pop of the file queue times out: the worker runs, the file
\* queue is empty and stays so.
TimedOut == vol_pc = "run" /\ dicom_q = <<>> /\ dicom_q' = <<>>

\* The needed set is non-empty and every number of it is in the pool.
NeededInPool ==
    /\ instance_numbers_needed # <<>>
    /\ SetOf(instance_numbers_needed) \subseteq SetOf(instance_numbers_gathered)

\* C20: a timeout that finds the needed set non-empty and wholly in the pool
\* emits a volume of that needed set in the same iteration; any other timeout
\* emits nothing and changes neither the needed set nor the pool.
C20_TimeoutEmitsWhenSatisfied ==
    [][TimedOut =>
          IF NeededInPool
          THEN /\ Len(volume_q') = Len(volume_q) + 1
               /\ Insts(volume_q'[Len(volume_q')]) = instance_numbers_needed
          ELSE UNCHANGED <<volume_q, instance_numbers_needed,
                           instance_numbers_gathered, current_slices>>]_vars

\* C20 witness: the last two volumes were emitted with the same file popped
\* last, so the later one came out of a timeout.
C20_Witness ==
    /\ Len(assembled) >= 2
    /\ assembled[Len(assembled)].at = assembled[Len(assembled) - 1].at
    /\ Len(volume_q) = Len(assembled)

\* C16: in both bindings every list_dir and retrieve_file has called
\* reconnect before its protocol command, and the command runs on a live
\* session even when the session had timed out before the call.
C16_ReconnectBeforeEveryOp ==
    \A b \in Bindings :
        last_op[b].op \in {"list_dir", "retrieve_file"} =>
            /\ last_op[b].probed
            /\ last_op[b].ran_on = "live"

\* The names of the entries of a list, in its order.
Names(l) == [i \in 1..Len(l) |-> l[i].name]

\* The name is a run of digits only.
IsNumber(name) == name # <<>> /\ \A i \in 1..Len(name) : IsDigit(name[i])

\* C17: _alphanumeric_sort returns a permutation of its input in which
\* names that are numbers stand in numeric order: "1", "10", "2" come out as
\* "1", "2", "10", and "a.11.d" comes before "a.100.d".
C17_NaturalOrder ==
    list_op = "_alphanumeric_sort" =>
        /\ Len(list_out) = Len(file_list)
        /\ SetOf(list_out) = SetOf(file_list)
        /\ \A i, j \in 1..Len(list_out) :
               (i < j /\ IsNumber(list_out[i].name) /\ IsNumber(list_out[j].name))
                   => IntOf(list_out[i].name) <= IntOf(list_out[j].name)
        /\ Names(file_list) = <<<<"1">>, <<"1", "0">>, <<"2">>>> =>
               Names(list_out) = <<<<"1">>, <<"2">>, <<"1", "0">>>>
        /\ \A i, j \in 1..Len(list_out) :
               (/\ list_out[i].name = <<"a", ".", "1", "0", "0", ".", "d">>
                /\ list_out[j].name = <<"a", ".", "1", "1", ".", "d">>) => j < i

\* C17 witness: the listing "1", "10", "2" was sorted.
C17_Witness ==
    /\ list_op = "_alphanumeric_sort"
    /\ Names(file_list) = <<<<"1">>, <<"1", "0">>, <<"2">>>>
    /\ Names(list_out) = <<<<"1">>, <<"2">>, <<"1", "0">>>>

\* The entries of the listing all carry the same minute in the time column.
SameBucket(l) ==
    /\ l # <<>>
    /\ \A i \in 1..Len(l) : l[i].time # Old /\ l[i].time = l[1].time

\* The names of l that the returned list holds, in the order of l.
Returned(l) ==
    LET out(n) == n \in SetOf(Names(list_out)) IN SelectSeq(Names(l), out)

\* The timestamps of the returned list are pairwise distinct.
KeysDistinct ==
    \A i, j \in 1..Len(list_out) :
        i # j => list_out[i].timestamp # list_out[j].timestamp

\* C18 as claimed: for a listing whose entries share one minute bucket, the
\* list ScannerClient._parse_dir_output returns is in the order in which the
\* entries were given to it, and the synthesized keys are pairwise distinct.
C18_InputOrderKept ==
    (list_op = "ScannerClient" /\ SameBucket(file_list)) =>
        /\ Names(list_out) = Returned(file_list)
        /\ KeysDistinct

\* C18 as amended: for such a listing the returned list is in the order the
\* natural alphanumeric sort gives the entries, whatever order they were
\* given in, and the synthesized keys are pairwise distinct.
C18_NaturalOrderKept ==
    (list_op = "ScannerClient" /\ SameBucket(file_list)) =>
        /\ Names(list_out) = Returned(alphanumeric_sort(file_list))
        /\ KeysDistinct

\* C18 witness: a listing of one bucket came back in another order than it
\* was given in, and not in the order of the sizes.
C18_Witness ==
    /\ list_op = "ScannerClient"
    /\ SameBucket(file_list)
    /\ Len(list_out) >= 2
    /\ Names(list_out) # Returned(file_list)
    /\ list_out[1].size > list_out[2].size

\* C19: in both bindings no entry whose name begins with "." (the junk name
\* .DS_Store among them) is in the list that list_dir returns.
C19_HiddenDropped ==
    list_op \in {"ScannerClient", "ScannerSFTPClient"} =>
        \A i \in 1..Len(list_out) :
            /\ ~StartsWith(list_out[i].name, <<".">>)
            /\ ~Contains(list_out[i].name, DSStore)

\* The run method of worker w is over: it returned, or an exception of the
\* iteration in progress ended it.
RunEnded(w) == loop_at[w] \in {"returned", "raised"}

\* C15: a worker reads its stop event at the loop test only: run returns
\* from the loop test alone and only with the event set; once the event is
\* set no new iteration starts, the iteration in progress is carried through
\* (DicomFinder has recorded every file it put for the current series when it
\* returns) and the run method comes to its end.
C15_CooperativeHalt ==
    /\ [][\A w \in Workers :
             (loop_at[w] # "returned" /\ loop_at'[w] = "returned") =>
                 loop_at[w] = "top" /\ stop_event[w]]_vars
    /\ [][\A w \in Workers :
             (stop_event[w] /\ loop_at[w] = "top") =>
                 loop_at'[w] \in {"top", "returned"}]_vars
    /\ [](loop_at["DicomFinder"] = "returned" =>
             \A i \in 1..Len(file_log) :
                 file_log[i][1] = tenure => file_log[i][2] \in dicom_files)
    /\ [](loop_at["Volumizer"] = "returned" =>
             Len(popped) = Len(volume_q) + Len(current_slices))
    /\ \A w \in Workers : stop_event[w] ~> RunEnded(w)

\* C15 witness: every worker was halted within an iteration and has
\* returned, DicomFinder after putting files and Volumizer after a volume.
C15_Witness ==
    /\ \A w \in Workers : halted_at[w] \notin {"never", "top"}
                          /\ loop_at[w] = "returned"
    /\ halted_at["DicomFinder"] = "files"
    /\ halted_at["Volumizer"] = "process"
    /\ file_log # <<>>
    /\ volume_q # <<>>

\* The files of the current series' directory.
CurrentFiles == IF df_current = 0 THEN {} ELSE SetOf(series_files(df_current))

\* C21: DicomFinder adopts the head of the series queue and empties its
\* seen-file set: every seen path is a file of the current series' directory,
\* the series adopted so far are the first of those enqueued, in the order of
\* their enqueueing (the current one the latest of them, the queue holding the
\* rest), and an iteration adopts one series at most.
C21_SeenOfCurrentSeries ==
    /\ [](dicom_files \subseteq CurrentFiles)
    /\ [](tenure <= Len(series_log))
    /\ [](tenure > 0 => df_current = series_log[tenure])
    /\ [](tenure = 0 => df_current = 0)
    /\ [](series_q = SubSeq(series_log, tenure + 1, Len(series_log)))
    /\ [][tenure' \in {tenure, tenure + 1}]_vars
    /\ [][tenure' = tenure + 1 =>
             /\ df_current' = Head(series_q)
             /\ dicom_files' = {}]_vars

\* C21 witness: the second series enqueued is current after the first, whose
\* files were put, and files of the second are in the seen-file set.
C21_Witness ==
    /\ tenure = 2
    /\ Len(series_log) = 2
    /\ \E i \in 1..Len(file_log) : file_log[i][1] = 1
    /\ dicom_files # {}

\* C22: files of one acquisition that disagree on slices-per-volume never
\* end Volumizer.run, and after each processed file the needed set is a block
\* of consecutive instance numbers whose size is the slices-per-volume value
\* of the file processed last.
C22_LatestSpvTrusted ==
    /\ vol_pc = "run"
    /\ popped # <<>> =>
           /\ Len(instance_numbers_needed) = SlicesPerVolume(dcm)
           /\ \A i \in 1..(Len(instance_numbers_needed) - 1) :
                  instance_numbers_needed[i + 1] = instance_numbers_needed[i] + 1

\* The last path of the startup enumeration.
LastEnumerated == series_dirs[Len(series_dirs)]

\* C23: series_dirs lists the latest exam entry by entry in list_dir's order
\* and latest_series is its last element; the startup enumeration leaves
\* current_series on the last entry enumerated, and while current_series is
\* that entry and the store does not change no step puts a series on the
\* series queue or moves current_series.
C23_LatestIsLastEnumerated ==
    /\ [](Len(series_dirs) = Len(store))
    /\ [](\A i, j \in 1..Len(series_dirs) :
              i < j => series_dirs[i] # series_dirs[j])
    /\ [](store # <<>> => latest_series = LastEnumerated)
    /\ [][(sf_current = 0 /\ sf_current' # 0) =>
              sf_current' = LastEnumerated /\ sf_current' = latest_series]_vars
    /\ [][(sf_current # 0 /\ sf_current = LastEnumerated /\ store' = store) =>
              /\ series_log' = series_log
              /\ sf_current' = sf_current
              /\ Len(series_q') <= Len(series_q)]_vars

\* C23 witness: the startup enumeration went over two series, put the first
\* and left current_series on the second, which it did not put (a later poll
\* would have put a series of two timepoints).
C23_Witness ==
    /\ sf_pc = "run"
    /\ Len(store) = 2
    /\ sf_current = 2
    /\ store[2].ntp = 2
    /\ series_log = <<1>>

\* The slices of the volumes of q from the i-th on, volume after volume.
RECURSIVE SlicesOf(_, _)
SlicesOf(q, i) ==
    IF i > Len(q) THEN <<>> ELSE q[i].image \o SlicesOf(q, i + 1)

\* Every insertion into the pool so far: the slices that left it in a volume
\* and those it still holds.
Inserted == SlicesOf(volume_q, 1) \o current_slices

\* C24: a file popped from the file queue is inserted into the pending pool
\* once: no file is among the emitted and pooled slices twice, whichever way
\* the iterations were entered.
C24_InsertedOnce ==
    \A i, j \in 1..Len(Inserted) : i # j => Inserted[i].id # Inserted[j].id

\* C25: the identity recorded in every volume on the volume queue is the
\* identity Volumizer.run was tracking when it emitted the volume, and every
\* slice of the volume has the identity recorded in it.
C25_VolumeIdentityTracked ==
    \A i \in 1..Len(volume_q) :
        /\ VolEsa(volume_q[i]) = assembled[i].esa
        /\ \A j \in 1..Len(volume_q[i].image) :
               dicom_esa(volume_q[i].image[j]) = VolEsa(volume_q[i])

\* Series s is in the exam and its first file reports seven timepoints.
Qualifies(s) == Len(store) >= s /\ store[s].ntp = 7

\* C26: every qualifying series under the latest exam, those that appear
\* after the startup enumeration included and however many appear between two
\* polls, comes to be put on the series queue, and none is put twice.
C26_NewSeriesAllQueued ==
    /\ [](\A i, j \in 1..Len(series_log) : i < j => series_log[i] # series_log[j])
    /\ \A s \in 1..(1 + MaxNew) : Qualifies(s) ~> (s \in SetOf(series_log))

\* C27: the get() of DicomFinder.run never waits: whenever the worker is at
\* it the series queue holds an item, whatever SeriesFinder did since the
\* test, so from the test and from the get the worker reaches its loop test
\* again; and a series is superseded only after its directory was listed.
C27_GetNeverWaits ==
    /\ [](loop_at["DicomFinder"] = "adopt" => series_q # <<>>)
    /\ (loop_at["DicomFinder"] \in {"series", "adopt"})
           ~> (loop_at["DicomFinder"] = "top")
    /\ [][(tenure' = tenure + 1 /\ tenure > 0) => df_listed]_vars

\* C27 witness: DicomFinder is at the get for the third time, the series it
\* is about to leave listed, one series waiting behind the one it will take.
C27_Witness ==
    /\ loop_at["DicomFinder"] = "adopt"
    /\ tenure = 2
    /\ df_listed
    /\ Len(series_q) = 1
    /\ Len(series_log) = 3

\* C28: a startup enumeration that finds no series directory in the latest
\* exam does not end SeriesFinder.run.
C28_EmptyExamSurvived == sf_pc # "NameError"

====
